---- MODULE Spec2Model ----
(***************************************************************************)
(* Model of the Live controller (package live) and of ErrorResponse.Error  *)
(* (package aliyun) of aliyun-live-go-sdk.                                  *)
(*                                                                         *)
(* Spec      one goroutine: every controller method is one atomic action.  *)
(* SpecConc  several goroutines calling API methods on one controller; a   *)
(*           method is split where it touches the shared template request. *)
(* SpecErr   ErrorResponse.Error() applied to bounded ErrorResponse values. *)
(***************************************************************************)
EXTENDS Integers, Sequences, FiniteSets, TLC

VARIABLES
    liveReq,        \* Live.liveReq: the shared template *Request
    bags,           \* heap of argument bags: bag address -> (key -> value)
    streamCert,     \* Live.streamCert: Nil or a pointer to StreamCredentials
    videoCenterDns, \* Live.videoCenterDns
    rpcDebug,       \* debug flag of Live.rpc, written by SetDebug
    newLiveDomain,  \* the domainName NewLive was called with
    stream,         \* the *Stream the caller holds: the value of its latest
                    \* GetStream, let go of before its next API call
    lastOp,         \* the latest controller operation and its arguments
    sent,           \* the requests the latest operation handed to rpc.Query
    queryRet,       \* what rpc.Query returned to the latest operation
    ret,            \* the error the latest operation returned
    pc,             \* SpecConc: position of each goroutine in its call
    thr,            \* SpecConc: locals of each goroutine (op, arguments, req)
    errResp,        \* SpecErr: the ErrorResponse value
    errOut          \* SpecErr: the string returned by Error()

vars ==
    <<liveReq, bags, streamCert, videoCenterDns, rpcDebug, newLiveDomain, stream,
      lastOp, sent, queryRet, ret, pc, thr, errResp, errOut>>

liveVars ==
    <<liveReq, bags, streamCert, videoCenterDns, rpcDebug, newLiveDomain, stream,
      lastOp, sent, queryRet, ret>>

concVars ==
    <<pc, thr>>

errVars ==
    <<errResp, errOut>>

----------------------------------------------------------------------------
\* Bounds of the model.

\* time.Time arguments range over 1..MaxTime
MaxTime ==
    1

----------------------------------------------------------------------------
\* Values.

\* a pointer is the set of the objects it points to: empty (nil) or a singleton
Nil ==
    {}

Ptr(x) ==
    {x}

Deref(p) ==
    CHOOSE x \in p : TRUE

\* the nil error
NilErr ==
    "nil"

\* global.EmptyString
EmptyString ==
    ""

DescribeLiveStreamsPublishListAction ==
    "DescribeLiveStreamsPublishListAction"

DescribeLiveStreamsOnlineListAction ==
    "DescribeLiveStreamsOnlineListAction"

DescribeLiveStreamsBlockListAction ==
    "DescribeLiveStreamsBlockListAction"

DescribeLiveStreamsControlHistoryAction ==
    "DescribeLiveStreamsControlHistoryAction"

ForbidLiveStreamAction ==
    "ForbidLiveStreamAction"

ResumeLiveStreamAction ==
    "ResumeLiveStreamAction"

DefaultVideoCenter ==
    "DefaultVideoCenter"

ActionConsts ==
    { DescribeLiveStreamsPublishListAction, DescribeLiveStreamsOnlineListAction,
      DescribeLiveStreamsBlockListAction, DescribeLiveStreamsControlHistoryAction,
      ForbidLiveStreamAction, ResumeLiveStreamAction }

\* inputs of the caller
DomainNames ==
    {"d1.example"}

AppNames ==
    {EmptyString, "app1", "app2"}

StreamNames ==
    {EmptyString, "s1"}

\* the streamName arguments of ForbidLiveStream and ResumeLiveStream, which
\* only store them
ControlledStreams ==
    {"s1"}

LiveStreamTypes ==
    {"publisher", "player"}

Times ==
    1..MaxTime

\* *time.Time arguments
TimePtrs ==
    {Nil} \cup {Ptr(t) : t \in Times}

VideoCenters ==
    {DefaultVideoCenter, "live.mycompany"}

CallerActions ==
    {"CustomAction", ForbidLiveStreamAction}

\* pointers to the caller's StreamCredentials objects: an address and the
\* signing key held there
CallerCerts ==
    { Ptr([addr |-> "c1", key |-> "k1"]) }

\* the address of the StreamCredentials a Clone() allocates
CloneAddr ==
    "clone"

\* the error values rpc.Query can return (NilErr: success)
ErrAppName ==
    "appName should not to be empty"

QueryResults ==
    {NilErr, "ErrorResponse"}

\* queryRet when rpc.Query was not called, ret of a method that returns no error
NotCalled ==
    "not called"

NoError ==
    "no error value"

\* addresses of argument bags: the template's, and the one a sequential call's
\* Clone allocates (a goroutine of SpecConc allocates at its own name)
TemplateBag ==
    "tmpl"

CallBag ==
    "call"

EmptyBag ==
    <<>>

\* the argument record of an operation without arguments
NoArgs ==
    [none |-> TRUE]

----------------------------------------------------------------------------
\* The Live controller as a value: its fields and the argument bags they reach.

Live ==
    [liveReq |-> liveReq, bags |-> bags, streamCert |-> streamCert,
     videoCenterDns |-> videoCenterDns, rpcDebug |-> rpcDebug]

\* util.GetISO8601TimeStamp: the formatted text of a time
GetISO8601TimeStamp(t) ==
    "2015-12-01T17:37:0" \o ToString(t) \o "Z"

\* NewLiveRequest(action, domainName, appName): a request with an empty bag
NewLiveRequest(action, domainName, appName) ==
    [Action |-> action, DomainName |-> domainName, AppName |-> appName,
     Args |-> TemplateBag]

\* Request.SetArgs(key, value): stores into the bag the request points to
SetArgs(req, heap, key, value) ==
    [heap EXCEPT ![req.Args] = (key :> value) @@ @]

\* Request.Clone(): a copy of the request with a bag of its own, allocated at addr
Clone(req, heap, addr) ==
    [req  |-> [req EXCEPT !.Args = addr],
     bags |-> (addr :> heap[req.Args]) @@ heap]

\* StreamCredentials.Clone(): a copy of the credentials at a new address
CertClone(cert) ==
    Ptr([Deref(cert) EXCEPT !.addr = CloneAddr])

\* what rpc.Query reads of the request it is handed
Snapshot(req, heap) ==
    [Action |-> req.Action, DomainName |-> req.DomainName,
     AppName |-> req.AppName, Args |-> heap[req.Args]]

\* Client.Query(req, resp): one round trip; qr is the error it returns
Query(l, req, qr) ==
    [l |-> l, sent |-> <<Snapshot(req, l.bags)>>, queryRet |-> qr]

\* NewLiveWithCtx
NewLiveWithCtx(domainName, appName, cert) ==
    [liveReq |-> NewLiveRequest(EmptyString, domainName, appName),
     bags |-> (TemplateBag :> EmptyBag),
     streamCert |-> cert,
     videoCenterDns |-> DefaultVideoCenter,
     rpcDebug |-> FALSE]

\* NewLive
NewLive(domainName, appName, cert) ==
    NewLiveWithCtx(domainName, appName, cert)

----------------------------------------------------------------------------
\* GET and SET

GetDomainName(l) ==
    l.liveReq.DomainName

GetAppName(l) ==
    l.liveReq.AppName

SetStreamCredentials(l, cert) ==
    [l EXCEPT !.streamCert = cert]

\* SetAppName writing the domain field (the write of the removed SetDomainName)
SetAppName_WritesDomain(l, appname) ==
    [l EXCEPT !.liveReq.DomainName = appname]

SetAppName(l, appname) ==
    [l EXCEPT !.liveReq.AppName = appname]

SetAction(l, action) ==
    [l EXCEPT !.liveReq.Action = action]

SetDebug(l, debug) ==
    [l EXCEPT !.rpcDebug = debug]

SetVideoCenter(l, dns) ==
    [l EXCEPT !.videoCenterDns = dns]

----------------------------------------------------------------------------
\* GetStream

\* GetStream handing out the controller's own credentials instead of a clone
GetStream_SharesCert(l, streamName) ==
    IF EmptyString = streamName
    THEN Nil
    ELSE Ptr([domainName     |-> l.liveReq.DomainName,
              appName        |-> l.liveReq.AppName,
              StreamName     |-> streamName,
              videoCenterDns |-> l.videoCenterDns,
              streamCert     |-> l.streamCert,
              signOn         |-> Nil # l.streamCert,
              live           |-> "l"])

GetStream(l, streamName) ==
    IF EmptyString = streamName
    THEN Nil
    ELSE LET credentials == IF Nil # l.streamCert THEN CertClone(l.streamCert)
                            ELSE Nil
         IN  Ptr([domainName     |-> l.liveReq.DomainName,
                  appName        |-> l.liveReq.AppName,
                  StreamName     |-> streamName,
                  videoCenterDns |-> l.videoCenterDns,
                  streamCert     |-> credentials,
                  signOn         |-> Nil # l.streamCert,
                  live           |-> "l"])

----------------------------------------------------------------------------
\* The API methods. Each returns the controller after the call, the requests
\* handed to rpc.Query, what Query returned and the error the method returns.

\* cloneRequest without the SetAction: the clone keeps the template's action
cloneRequest_KeepsAction(l, action, addr) ==
    LET c == Clone(l.liveReq, l.bags, addr)
    IN  [l |-> [l EXCEPT !.bags = c.bags], req |-> c.req]

\* cloneRequest: SetAction on the shared template, then Clone of the template
cloneRequest(l, action, addr) ==
    LET l1 == SetAction(l, action)
        c  == Clone(l1.liveReq, l1.bags, addr)
    IN  [l |-> [l1 EXCEPT !.bags = c.bags], req |-> c.req]

\* a method that queries a second time when the first Query failed
QueryAndReturn_Retries(l, req, qr) ==
    LET q == Query(l, req, qr)
    IN  [l |-> q.l,
         sent |-> IF qr = NilErr THEN q.sent ELSE q.sent \o Query(q.l, req, qr).sent,
         queryRet |-> q.queryRet, ret |-> q.queryRet]

\* a method's "err = l.rpc.Query(req, resp); return"
QueryAndReturn(l, req, qr) ==
    LET q == Query(l, req, qr)
    IN  [l |-> q.l, sent |-> q.sent, queryRet |-> q.queryRet, ret |-> q.queryRet]

\* a method's early "return errors.New(...)"
ReturnError(l, err) ==
    [l |-> l, sent |-> <<>>, queryRet |-> NotCalled, ret |-> err]

\* StreamsPublishList after its cloneRequest
StreamsPublishListFrom(c, startTime, endTime, qr) ==
    LET b1 == SetArgs(c.req, c.l.bags, "StartTime", GetISO8601TimeStamp(startTime))
        b2 == SetArgs(c.req, b1, "EndTime", GetISO8601TimeStamp(endTime))
    IN  QueryAndReturn([c.l EXCEPT !.bags = b2], c.req, qr)

StreamsPublishList(l, startTime, endTime, qr) ==
    StreamsPublishListFrom(
        cloneRequest(l, DescribeLiveStreamsPublishListAction, CallBag),
        startTime, endTime, qr)

\* StreamsOnlineList after its cloneRequest
StreamsOnlineListFrom(c, qr) ==
    QueryAndReturn(c.l, c.req, qr)

StreamsOnlineList(l, qr) ==
    StreamsOnlineListFrom(
        cloneRequest(l, DescribeLiveStreamsOnlineListAction, CallBag), qr)

\* StreamsBlockList blanking the AppName of the template, not of its request
StreamsBlockListFrom_BlanksTemplate(c, qr) ==
    QueryAndReturn(SetAppName(c.l, EmptyString),
                   [c.req EXCEPT !.AppName = EmptyString], qr)

\* StreamsBlockList after its cloneRequest
StreamsBlockListFrom(c, qr) ==
    LET req == [c.req EXCEPT !.AppName = EmptyString]
    IN  QueryAndReturn(c.l, req, qr)

StreamsBlockList(l, qr) ==
    StreamsBlockListFrom(
        cloneRequest(l, DescribeLiveStreamsBlockListAction, CallBag), qr)

\* StreamsControlHistory after its cloneRequest
StreamsControlHistoryFrom(c, startTime, endTime, qr) ==
    LET b1 == SetArgs(c.req, c.l.bags, "StartTime", GetISO8601TimeStamp(startTime))
        b2 == SetArgs(c.req, b1, "EndTime", GetISO8601TimeStamp(endTime))
    IN  QueryAndReturn([c.l EXCEPT !.bags = b2], c.req, qr)

StreamsControlHistory(l, startTime, endTime, qr) ==
    StreamsControlHistoryFrom(
        cloneRequest(l, DescribeLiveStreamsControlHistoryAction, CallBag),
        startTime, endTime, qr)

\* ForbidLiveStream after its cloneRequest
ForbidLiveStreamFrom(c, appName, streamName, liveStreamType, resumeTime, qr) ==
    LET req == [c.req EXCEPT !.AppName = appName]
        b1  == SetArgs(req, c.l.bags, "StreamName", streamName)
        b2  == SetArgs(req, b1, "LiveStreamType", liveStreamType)
        b3  == IF Nil # resumeTime
               THEN SetArgs(req, b2, "ResumeTime", GetISO8601TimeStamp(Deref(resumeTime)))
               ELSE b2
    IN  QueryAndReturn([c.l EXCEPT !.bags = b3], req, qr)

\* ForbidLiveStream without the check of appName
ForbidLiveStream_Unchecked(l, appName, streamName, liveStreamType, resumeTime, qr) ==
    ForbidLiveStreamFrom(
        cloneRequest(l, ForbidLiveStreamAction, CallBag),
        appName, streamName, liveStreamType, resumeTime, qr)

ForbidLiveStream(l, appName, streamName, liveStreamType, resumeTime, qr) ==
    IF EmptyString = appName
    THEN ReturnError(l, ErrAppName)
    ELSE ForbidLiveStreamFrom(
             cloneRequest(l, ForbidLiveStreamAction, CallBag),
             appName, streamName, liveStreamType, resumeTime, qr)

ForbidLiveStreamWithPublisher(l, streamName, resumeTime, qr) ==
    ForbidLiveStream(l, l.liveReq.AppName, streamName, "publisher", resumeTime, qr)

\* ResumeLiveStream after its cloneRequest
ResumeLiveStreamFrom(c, appName, streamName, liveStreamType, qr) ==
    LET req == [c.req EXCEPT !.AppName = appName]
        b1  == SetArgs(req, c.l.bags, "StreamName", streamName)
        b2  == SetArgs(req, b1, "LiveStreamType", liveStreamType)
    IN  QueryAndReturn([c.l EXCEPT !.bags = b2], req, qr)

ResumeLiveStream(l, appName, streamName, liveStreamType, qr) ==
    IF EmptyString = appName
    THEN ReturnError(l, ErrAppName)
    ELSE ResumeLiveStreamFrom(
             cloneRequest(l, ResumeLiveStreamAction, CallBag),
             appName, streamName, liveStreamType, qr)

ResumeLiveStreamWithPublisher(l, streamName, qr) ==
    ResumeLiveStream(l, l.liveReq.AppName, streamName, "publisher", qr)

----------------------------------------------------------------------------
\* One goroutine: the caller's operations, each a whole method call.

\* the controller's fields after a method; the call's request is unreachable
\* once the method has returned, so only the template's bag is kept
Store(l) ==
    /\ liveReq' = l.liveReq
    /\ bags' = [a \in {TemplateBag} |-> l.bags[a]]
    /\ streamCert' = l.streamCert
    /\ videoCenterDns' = l.videoCenterDns
    /\ rpcDebug' = l.rpcDebug

\* an API method returned r (no API method has access to a Stream; the caller
\* holds none across the call)
Returned(op, in, r) ==
    /\ Store(r.l)
    /\ lastOp' = [op |-> op, in |-> in]
    /\ sent' = r.sent
    /\ queryRet' = r.queryRet
    /\ ret' = r.ret
    /\ stream' = Nil
    /\ UNCHANGED <<newLiveDomain, concVars, errVars>>

\* a setter returned the controller l
Updated(op, in, l) ==
    /\ Store(l)
    /\ lastOp' = [op |-> op, in |-> in]
    /\ sent' = <<>>
    /\ queryRet' = NotCalled
    /\ ret' = NoError
    /\ UNCHANGED <<newLiveDomain, stream, concVars, errVars>>

CallStreamsPublishList ==
    \E s \in Times, e \in Times, qr \in QueryResults :
        Returned("StreamsPublishList", [startTime |-> s, endTime |-> e],
                 StreamsPublishList(Live, s, e, qr))

CallStreamsOnlineList ==
    \E qr \in QueryResults :
        Returned("StreamsOnlineList", NoArgs, StreamsOnlineList(Live, qr))

CallStreamsBlockList ==
    \E qr \in QueryResults :
        Returned("StreamsBlockList", NoArgs, StreamsBlockList(Live, qr))

CallStreamsControlHistory ==
    \E s \in Times, e \in Times, qr \in QueryResults :
        Returned("StreamsControlHistory", [startTime |-> s, endTime |-> e],
                 StreamsControlHistory(Live, s, e, qr))

CallForbidLiveStream ==
    \E a \in AppNames, n \in ControlledStreams, ty \in LiveStreamTypes,
       rt \in TimePtrs, qr \in QueryResults :
        Returned("ForbidLiveStream",
                 [appName |-> a, streamName |-> n, liveStreamType |-> ty,
                  resumeTime |-> rt],
                 ForbidLiveStream(Live, a, n, ty, rt, qr))

CallForbidLiveStreamWithPublisher ==
    \E n \in ControlledStreams, rt \in TimePtrs, qr \in QueryResults :
        Returned("ForbidLiveStreamWithPublisher",
                 [streamName |-> n, resumeTime |-> rt],
                 ForbidLiveStreamWithPublisher(Live, n, rt, qr))

CallResumeLiveStream ==
    \E a \in AppNames, n \in ControlledStreams, ty \in LiveStreamTypes,
       qr \in QueryResults :
        Returned("ResumeLiveStream",
                 [appName |-> a, streamName |-> n, liveStreamType |-> ty],
                 ResumeLiveStream(Live, a, n, ty, qr))

CallResumeLiveStreamWithPublisher ==
    \E n \in ControlledStreams, qr \in QueryResults :
        Returned("ResumeLiveStreamWithPublisher", [streamName |-> n],
                 ResumeLiveStreamWithPublisher(Live, n, qr))

CallGetStream ==
    \E n \in StreamNames :
        /\ stream' = GetStream(Live, n)
        /\ lastOp' = [op |-> "GetStream", in |-> [streamName |-> n]]
        /\ sent' = <<>>
        /\ queryRet' = NotCalled
        /\ ret' = NoError
        /\ UNCHANGED <<liveReq, bags, streamCert, videoCenterDns, rpcDebug,
                       newLiveDomain, concVars, errVars>>

CallSetStreamCredentials ==
    \E c \in {Nil} \cup CallerCerts :
        Updated("SetStreamCredentials", [streamCert |-> c],
                SetStreamCredentials(Live, c))

CallSetAppName ==
    \E a \in AppNames :
        Updated("SetAppName", [appname |-> a], SetAppName(Live, a))

CallSetAction ==
    \E a \in CallerActions :
        Updated("SetAction", [action |-> a], SetAction(Live, a))

CallSetDebug ==
    \E d \in BOOLEAN :
        Updated("SetDebug", [debug |-> d], SetDebug(Live, d))

CallSetVideoCenter ==
    \E v \in VideoCenters :
        Updated("SetVideoCenter", [videoCenterDns |-> v], SetVideoCenter(Live, v))

\* the state in which NewLive, called with domainName d, returned controller l
Constructed(l, d) ==
    /\ newLiveDomain = d
    /\ liveReq = l.liveReq
    /\ bags = l.bags
    /\ streamCert = l.streamCert
    /\ videoCenterDns = l.videoCenterDns
    /\ rpcDebug = l.rpcDebug
    /\ stream = Nil
    /\ lastOp = [op |-> "NewLive", in |-> NoArgs]
    /\ sent = <<>>
    /\ queryRet = NotCalled
    /\ ret = NoError

Goroutines ==
    {"g1", "g2"}

ConcIdle ==
    /\ pc = [g \in Goroutines |-> "idle"]
    /\ thr = [g \in Goroutines |-> NoArgs]

ErrIdle ==
    /\ errResp = NoArgs
    /\ errOut = <<>>

Init ==
    /\ \E d \in DomainNames, a \in AppNames, c \in {Nil} \cup CallerCerts :
           Constructed(NewLive(d, a, c), d)
    /\ ConcIdle
    /\ ErrIdle

Next ==
    \/ CallStreamsPublishList
    \/ CallStreamsOnlineList
    \/ CallStreamsBlockList
    \/ CallStreamsControlHistory
    \/ CallForbidLiveStream
    \/ CallForbidLiveStreamWithPublisher
    \/ CallResumeLiveStream
    \/ CallResumeLiveStreamWithPublisher
    \/ CallGetStream
    \/ CallSetStreamCredentials
    \/ CallSetAppName
    \/ CallSetAction
    \/ CallSetDebug
    \/ CallSetVideoCenter

Spec ==
    Init /\ [][Next]_vars

----------------------------------------------------------------------------
\* Properties of the sequential controller (Spec).

ApiOps ==
    {"StreamsPublishList", "StreamsOnlineList", "StreamsBlockList",
     "StreamsControlHistory", "ForbidLiveStream", "ForbidLiveStreamWithPublisher",
     "ResumeLiveStream", "ResumeLiveStreamWithPublisher"}

\* the action constant that belongs to an API method
ActionOf(op) ==
    CASE op = "StreamsPublishList" -> DescribeLiveStreamsPublishListAction
      [] op = "StreamsOnlineList" -> DescribeLiveStreamsOnlineListAction
      [] op = "StreamsBlockList" -> DescribeLiveStreamsBlockListAction
      [] op = "StreamsControlHistory" -> DescribeLiveStreamsControlHistoryAction
      [] op \in {"ForbidLiveStream", "ForbidLiveStreamWithPublisher"} ->
             ForbidLiveStreamAction
      [] op \in {"ResumeLiveStream", "ResumeLiveStreamWithPublisher"} ->
             ResumeLiveStreamAction

\* the arguments an API call with these inputs is to put into its request
ExpectedArgs(o) ==
    CASE o.op \in {"StreamsPublishList", "StreamsControlHistory"} ->
             [k \in {"StartTime", "EndTime"} |->
                 IF k = "StartTime" THEN GetISO8601TimeStamp(o.in.startTime)
                 ELSE GetISO8601TimeStamp(o.in.endTime)]
      [] o.op \in {"StreamsOnlineList", "StreamsBlockList"} -> EmptyBag
      [] o.op \in {"ForbidLiveStream", "ForbidLiveStreamWithPublisher"} ->
             [k \in {"StreamName", "LiveStreamType"}
                    \cup (IF o.in.resumeTime = Nil THEN {} ELSE {"ResumeTime"}) |->
                 IF k = "StreamName" THEN o.in.streamName
                 ELSE IF k = "LiveStreamType"
                      THEN IF o.op = "ForbidLiveStream"
                           THEN o.in.liveStreamType ELSE "publisher"
                      ELSE GetISO8601TimeStamp(Deref(o.in.resumeTime))]
      [] o.op \in {"ResumeLiveStream", "ResumeLiveStreamWithPublisher"} ->
             [k \in {"StreamName", "LiveStreamType"} |->
                 IF k = "StreamName" THEN o.in.streamName
                 ELSE IF o.op = "ResumeLiveStream"
                      THEN o.in.liveStreamType ELSE "publisher"]

SameBag(a, b) ==
    /\ DOMAIN a = DOMAIN b
    /\ \A k \in DOMAIN a : a[k] = b[k]

\* C1: ForbidLiveStream and ResumeLiveStream called with an empty appName
\* return a non-nil error and hand no request to rpc.Query, whatever the other
\* arguments and the state of the controller.
C1_EmptyAppNameRejected ==
    (lastOp.op \in {"ForbidLiveStream", "ResumeLiveStream"}
        /\ lastOp.in.appName = EmptyString)
    => (ret = ErrAppName /\ ret # NilErr /\ sent = <<>> /\ queryRet = NotCalled)

C1_Witness ==
    /\ lastOp.op = "ResumeLiveStream"
    /\ lastOp.in.appName = EmptyString
    /\ lastOp.in.streamName # EmptyString
    /\ liveReq.AppName # EmptyString
    /\ ret = ErrAppName

\* C3: in a sequential history of API calls and setters, every request an API
\* method hands to rpc.Query carries the action constant of that method,
\* whatever action the template held before.
C3_RequestCarriesOwnAction ==
    lastOp.op \in ApiOps =>
        \A i \in 1..Len(sent) : sent[i].Action = ActionOf(lastOp.op)

C3_Witness ==
    /\ lastOp.op = "StreamsControlHistory"
    /\ Len(sent) = 1
    /\ sent[1].Action = DescribeLiveStreamsControlHistoryAction

\* C4: an API call leaves the controller's defaults alone: GetAppName,
\* GetDomainName and the template's argument bag are the same after the call as
\* before, and the request of the call holds the arguments of this call only.
C4_CallKeepsDefaults ==
    [][lastOp'.op \in ApiOps =>
          /\ GetAppName(Live)' = GetAppName(Live)
          /\ GetDomainName(Live)' = GetDomainName(Live)
          /\ liveReq'.Args = liveReq.Args
          /\ SameBag(bags'[liveReq'.Args], bags[liveReq.Args])
          /\ \A i \in 1..Len(sent') : SameBag(sent'[i].Args, ExpectedArgs(lastOp'))
      ]_vars

C4_Witness ==
    /\ lastOp.op = "StreamsBlockList"
    /\ Len(sent) = 1
    /\ sent[1].AppName = EmptyString
    /\ GetAppName(Live) = "app1"
    /\ bags[liveReq.Args] = EmptyBag

\* the validation of an API call passes: its app name (the argument, or the
\* default for the WithPublisher methods) is not empty where one is required
ValidationPasses ==
    CASE lastOp.op \in {"ForbidLiveStream", "ResumeLiveStream"} ->
             lastOp.in.appName # EmptyString
      [] lastOp.op \in {"ForbidLiveStreamWithPublisher",
                        "ResumeLiveStreamWithPublisher"} ->
             liveReq.AppName # EmptyString
      [] OTHER -> TRUE

\* C5: an API call whose validation passes hands exactly one request to
\* rpc.Query, also when Query fails, and returns what Query returned.
C5_OneQueryErrorUnchanged ==
    (lastOp.op \in ApiOps /\ ValidationPasses)
    => (Len(sent) = 1 /\ queryRet \in QueryResults /\ ret = queryRet)

C5_Witness ==
    /\ lastOp.op = "ForbidLiveStream"
    /\ Len(sent) = 1
    /\ queryRet = "ErrorResponse"
    /\ ret = "ErrorResponse"

\* C6: the domain of a controller never changes: GetDomainName is the
\* domainName given to NewLive, and so is the domain of every request handed to
\* rpc.Query and of every Stream returned by GetStream.
C6_DomainFixed ==
    /\ GetDomainName(Live) = newLiveDomain
    /\ \A i \in 1..Len(sent) : sent[i].DomainName = newLiveDomain
    /\ stream # Nil => Deref(stream).domainName = newLiveDomain

C6_Witness ==
    /\ lastOp.op = "SetAppName"
    /\ liveReq.AppName = "app2"
    /\ liveReq.Action = ForbidLiveStreamAction
    /\ stream # Nil
    /\ Deref(stream).domainName = "d1.example"
    /\ Deref(stream).appName = "app1"

\* the API methods that take no appName argument
NoAppNameOps ==
    {"StreamsPublishList", "StreamsOnlineList", "StreamsControlHistory",
     "ForbidLiveStreamWithPublisher", "ResumeLiveStreamWithPublisher"}

\* C7: on a controller whose default app name is empty, every API method that
\* takes no appName argument still hands its request to rpc.Query, with an
\* empty AppName.
C7_EmptyDefaultAppNameIgnored ==
    (lastOp.op \in NoAppNameOps /\ liveReq.AppName = EmptyString)
    => (Len(sent) = 1 /\ sent[1].AppName = EmptyString /\ ret = queryRet)

\* C8: GetStream returns nil for an empty stream name; otherwise a Stream that
\* signs exactly if the controller holds credentials at the call, that has no
\* credentials if the controller has none and a clone of them if it has; a
\* later SetStreamCredentials, SetAppName or SetVideoCenter changes nothing of
\* a Stream already returned.
C8_GetStream ==
    [][/\ lastOp'.op = "GetStream" =>
            IF lastOp'.in.streamName = EmptyString
            THEN stream' = Nil
            ELSE /\ stream' # Nil
                 /\ Deref(stream').StreamName = lastOp'.in.streamName
                 /\ Deref(stream').signOn = (streamCert # Nil)
                 /\ Deref(stream').appName = liveReq.AppName
                 /\ Deref(stream').videoCenterDns = videoCenterDns
                 /\ streamCert = Nil => Deref(stream').streamCert = Nil
                 /\ streamCert # Nil =>
                      /\ Deref(stream').streamCert # Nil
                      /\ Deref(Deref(stream').streamCert).key = Deref(streamCert).key
                      /\ Deref(Deref(stream').streamCert).addr # Deref(streamCert).addr
       /\ lastOp'.op \in {"SetStreamCredentials", "SetAppName", "SetVideoCenter"} =>
            stream' = stream
      ]_vars

C8_Witness ==
    /\ lastOp.op = "SetStreamCredentials"
    /\ streamCert = Nil
    /\ stream # Nil
    /\ Deref(stream).signOn
    /\ Deref(stream).streamCert # Nil
    /\ Deref(stream).appName # liveReq.AppName
    /\ Deref(stream).videoCenterDns # videoCenterDns

\* C10: an API call writes no field of the shared template; the template's
\* Action changes only when the caller invokes SetAction.
C10_TemplateActionOnlyBySetAction ==
    [][liveReq'.Action # liveReq.Action => lastOp'.op = "SetAction"]_vars

----------------------------------------------------------------------------
\* Several goroutines on one controller (SpecConc). No lock guards the template:
\* the write of liveReq.Action in SetAction and the read of it in Clone race.
\* A Go string is two words (data pointer, length), written one at a time, so a
\* racing reader or a second writer can leave or see the words of two different
\* strings. Here liveReq.Action holds the two words.

\* the words of the string a
Words(a) ==
    [ptr |-> a, len |-> a]

\* the calls the goroutines make
ConcCalls ==
    {[op |-> "StreamsPublishList", in |-> [startTime |-> t, endTime |-> MaxTime]] :
        t \in Times}
    \cup {[op |-> "StreamsOnlineList", in |-> NoArgs],
          [op |-> "StreamsBlockList", in |-> NoArgs]}
    \cup {[op |-> "StreamsControlHistory",
           in |-> [startTime |-> MaxTime, endTime |-> MaxTime]]}
    \cup {[op |-> "ForbidLiveStream",
           in |-> [appName |-> a, streamName |-> "s1", liveStreamType |-> "player",
                   resumeTime |-> Ptr(MaxTime)]] : a \in AppNames}
    \cup {[op |-> "ResumeLiveStream",
           in |-> [appName |-> a, streamName |-> "s1",
                   liveStreamType |-> "publisher"]] : a \in AppNames}

\* the method's check of its arguments, before its cloneRequest
Rejected(o) ==
    /\ o.op \in {"ForbidLiveStream", "ResumeLiveStream"}
    /\ EmptyString = o.in.appName

\* the rest of method o.op after its cloneRequest returned c
AfterClone(c, o, qr) ==
    CASE o.op = "StreamsPublishList" ->
             StreamsPublishListFrom(c, o.in.startTime, o.in.endTime, qr)
      [] o.op = "StreamsOnlineList" -> StreamsOnlineListFrom(c, qr)
      [] o.op = "StreamsBlockList" -> StreamsBlockListFrom(c, qr)
      [] o.op = "StreamsControlHistory" ->
             StreamsControlHistoryFrom(c, o.in.startTime, o.in.endTime, qr)
      [] o.op = "ForbidLiveStream" ->
             ForbidLiveStreamFrom(c, o.in.appName, o.in.streamName,
                                  o.in.liveStreamType, o.in.resumeTime, qr)
      [] o.op = "ResumeLiveStream" ->
             ResumeLiveStreamFrom(c, o.in.appName, o.in.streamName,
                                  o.in.liveStreamType, qr)

\* goroutine g enters an API method; a rejected call returns at once
Begin(g) ==
    /\ pc[g] = "idle"
    /\ \E o \in ConcCalls :
          IF Rejected(o)
          THEN /\ pc' = [pc EXCEPT ![g] = "done"]
               /\ thr' = [thr EXCEPT ![g] =
                            [op |-> o.op, in |-> o.in, written |-> {},
                             req |-> Nil, sent |-> <<>>, ret |-> ErrAppName]]
          ELSE /\ pc' = [pc EXCEPT ![g] = "setAction"]
               /\ thr' = [thr EXCEPT ![g] =
                            [op |-> o.op, in |-> o.in, written |-> {},
                             req |-> Nil, sent |-> <<>>, ret |-> NoError]]
    /\ UNCHANGED <<liveVars, errVars>>

\* SetAction in cloneRequest: g stores one more word of its action constant
WriteActionWord(g) ==
    /\ pc[g] = "setAction"
    /\ \E w \in {"ptr", "len"} \ thr[g].written :
          /\ liveReq' = [liveReq EXCEPT !.Action[w] = ActionOf(thr[g].op)]
          /\ thr' = [thr EXCEPT ![g].written = @ \cup {w}]
          /\ pc' = [pc EXCEPT ![g] =
                      IF thr[g].written \cup {w} = {"ptr", "len"}
                      THEN "clone" ELSE "setAction"]
    /\ UNCHANGED <<bags, streamCert, videoCenterDns, rpcDebug, newLiveDomain,
                   stream, lastOp, sent, queryRet, ret, errVars>>

\* Clone in cloneRequest: g copies the template as it is now
CloneTemplate(g) ==
    /\ pc[g] = "clone"
    /\ LET c == Clone(liveReq, bags, g)
       IN  /\ thr' = [thr EXCEPT ![g].req = Ptr(c.req)]
           /\ bags' = c.bags
    /\ pc' = [pc EXCEPT ![g] = "query"]
    /\ UNCHANGED <<liveReq, streamCert, videoCenterDns, rpcDebug, newLiveDomain,
                   stream, lastOp, sent, queryRet, ret, errVars>>

\* the rest of the method: g fills its own request and hands it to rpc.Query
FillAndQuery(g) ==
    /\ pc[g] = "query"
    /\ \E qr \in QueryResults :
          LET r == AfterClone([l |-> Live, req |-> Deref(thr[g].req)], thr[g], qr)
          IN  /\ thr' = [thr EXCEPT ![g].sent = r.sent, ![g].ret = r.ret]
              /\ bags' = r.l.bags
    /\ pc' = [pc EXCEPT ![g] = "done"]
    /\ UNCHANGED <<liveReq, streamCert, videoCenterDns, rpcDebug, newLiveDomain,
                   stream, lastOp, sent, queryRet, ret, errVars>>

\* the method returns; its request is garbage
Return(g) ==
    /\ pc[g] = "done"
    /\ pc' = [pc EXCEPT ![g] = "idle"]
    /\ thr' = [thr EXCEPT ![g] = NoArgs]
    /\ bags' = [a \in DOMAIN bags \ {g} |-> bags[a]]
    /\ UNCHANGED <<liveReq, streamCert, videoCenterDns, rpcDebug, newLiveDomain,
                   stream, lastOp, sent, queryRet, ret, errVars>>

InitConc ==
    /\ \E d \in DomainNames, a \in {"app1"} :
          Constructed([NewLive(d, a, Nil) EXCEPT !.liveReq.Action = Words(@)], d)
    /\ ConcIdle
    /\ ErrIdle

NextConc ==
    \E g \in Goroutines :
        \/ Begin(g)
        \/ WriteActionWord(g)
        \/ CloneTemplate(g)
        \/ FillAndQuery(g)
        \/ Return(g)

SpecConc ==
    InitConc /\ [][NextConc]_vars

\* C2: when API methods are called concurrently on one controller and no
\* setter is called, the request each call hands to rpc.Query carries that
\* call's own action constant and its own arguments.
C2_NoCrossCallInterference ==
    \A g \in Goroutines :
        (pc[g] = "done" /\ thr[g].sent # <<>>) =>
            /\ thr[g].sent[1].Action = Words(ActionOf(thr[g].op))
            /\ SameBag(thr[g].sent[1].Args, ExpectedArgs(thr[g]))

----------------------------------------------------------------------------
\* ErrorResponse.Error (SpecErr). A Go string is the sequence of its characters.

\* the longest RequestId, Code and Message tried
MaxLen ==
    2

Chars ==
    {"a", "1"}

StringsUpTo(n) ==
    UNION {[1..k -> Chars] : k \in 0..n}

\* the values of Recommend and HostId tried
OtherStrings ==
    {<<>>, <<"a">>}

StatusCodes ==
    {0, 7, 10, 404, -1}

\* the ErrorResponse values tried
ErrorResponses ==
    [RequestId : StringsUpTo(MaxLen), Recommend : OtherStrings,
     HostId : OtherStrings, Code : StringsUpTo(MaxLen),
     Message : StringsUpTo(MaxLen), StatusCode : StatusCodes]

DigitChars ==
    <<"0", "1", "2", "3", "4", "5", "6", "7", "8", "9">>

RECURSIVE FormatNat(_)
\* the decimal digits of a natural number
FormatNat(n) ==
    IF n < 10 THEN <<DigitChars[n + 1]>>
    ELSE FormatNat(n \div 10) \o <<DigitChars[(n % 10) + 1]>>

\* the verb %d of fmt: a decimal integer with a sign when negative
FormatInt(n) ==
    IF n < 0 THEN <<"-">> \o FormatNat(0 - n) ELSE FormatNat(n)

RECURSIVE Sprintf(_, _)
\* fmt.Sprintf for the verbs %s and %d: the format with each verb replaced
\* by the next argument
Sprintf(format, args) ==
    IF format = <<>> THEN <<>>
    ELSE IF Head(format) = "%" /\ Len(format) >= 2 /\ format[2] \in {"s", "d"}
         THEN (IF format[2] = "s" THEN Head(args) ELSE FormatInt(Head(args)))
              \o Sprintf(SubSeq(format, 3, Len(format)), Tail(args))
         ELSE <<Head(format)>> \o Sprintf(Tail(format), args)

\* the format string of ErrorResponse.Error
ErrorFormat ==
    <<"A", "l", "i", "y", "u", "n", " ", "A", "P", "I", " ", "E", "r", "r",
      "o", "r", ":", "\n", " ", "R", "e", "q", "u", "e", "s", "t", "I",
      "d", ":", " ", "%", "s", "\n", " ", "S", "t", "a", "t", "u", "s",
      " ", "C", "o", "d", "e", ":", " ", "%", "d", "\n", " ", "C", "o",
      "d", "e", ":", " ", "%", "s", "\n", " ", "M", "e", "s", "s", "a",
      "g", "e", ":", " ", "%", "s", "\n">>

\* Error() with Code and Message in each other's place
Error_SwapsCodeMessage(e) ==
    Sprintf(ErrorFormat, <<e.RequestId, e.StatusCode, e.Message, e.Code>>)

\* ErrorResponse.Error
Error(e) ==
    Sprintf(ErrorFormat, <<e.RequestId, e.StatusCode, e.Code, e.Message>>)

\* the caller calls Error() on the ErrorResponse it holds
CallError ==
    /\ errOut' = Error(errResp)
    /\ UNCHANGED <<errResp, liveVars, concVars>>

InitErr ==
    /\ errResp \in ErrorResponses
    /\ errOut = <<>>
    /\ Constructed(NewLive("d1.example", "app1", Nil), "d1.example")
    /\ ConcIdle

NextErr ==
    CallError

SpecErr ==
    InitErr /\ [][NextErr]_vars

\* the fixed labels of the message
LabelRequestId ==
    <<"A", "l", "i", "y", "u", "n", " ", "A", "P", "I", " ", "E", "r", "r",
      "o", "r", ":", "\n", " ", "R", "e", "q", "u", "e", "s", "t", "I",
      "d", ":", " ">>

LabelStatusCode ==
    <<"\n", " ", "S", "t", "a", "t", "u", "s", " ", "C", "o", "d", "e",
      ":", " ">>

LabelCode ==
    <<"\n", " ", "C", "o", "d", "e", ":", " ">>

LabelMessage ==
    <<"\n", " ", "M", "e", "s", "s", "a", "g", "e", ":", " ">>

\* x occurs in s at position p
OccursAt(s, p, x) ==
    /\ p + Len(x) - 1 <= Len(s)
    /\ \A i \in 1..Len(x) : s[p + i - 1] = x[i]

IsDigits(s) ==
    /\ Len(s) >= 1
    /\ \A i \in 1..Len(s) : \E d \in 1..10 : DigitChars[d] = s[i]

RECURSIVE ParseNat(_)
\* the number a sequence of decimal digits denotes
ParseNat(s) ==
    IF s = <<>> THEN 0
    ELSE ParseNat(SubSeq(s, 1, Len(s) - 1)) * 10
         + ((CHOOSE d \in 1..10 : DigitChars[d] = s[Len(s)]) - 1)

\* s is the decimal text of n
IsDecimalOf(s, n) ==
    IF n < 0
    THEN Len(s) >= 2 /\ s[1] = "-" /\ IsDigits(Tail(s)) /\ ParseNat(Tail(s)) = 0 - n
    ELSE IsDigits(s) /\ ParseNat(s) = n

\* C9: the string Error() returns holds, in this order and each right after
\* its label, the RequestId, the StatusCode in decimal, the Code and the
\* Message, verbatim, and does not depend on Recommend or HostId.
C9_ErrorText ==
    errOut # <<>> =>
        /\ \E k \in 1..Len(errOut) :
              LET pRid  == 1 + Len(LabelRequestId)
                  pSt   == pRid + Len(errResp.RequestId) + Len(LabelStatusCode)
                  pCode == pSt + k + Len(LabelCode)
                  pMsg  == pCode + Len(errResp.Code) + Len(LabelMessage)
              IN  /\ OccursAt(errOut, 1, LabelRequestId)
                  /\ OccursAt(errOut, pRid, errResp.RequestId)
                  /\ OccursAt(errOut, pRid + Len(errResp.RequestId), LabelStatusCode)
                  /\ pSt + k - 1 <= Len(errOut)
                  /\ IsDecimalOf(SubSeq(errOut, pSt, pSt + k - 1), errResp.StatusCode)
                  /\ OccursAt(errOut, pSt + k, LabelCode)
                  /\ OccursAt(errOut, pCode, errResp.Code)
                  /\ OccursAt(errOut, pCode + Len(errResp.Code), LabelMessage)
                  /\ OccursAt(errOut, pMsg, errResp.Message)
                  /\ Len(errOut) = pMsg + Len(errResp.Message)
        /\ \A r \in OtherStrings, h \in OtherStrings :
              Error([errResp EXCEPT !.Recommend = r, !.HostId = h]) = errOut

C9_Witness ==
    /\ errOut # <<>>
    /\ errResp.StatusCode = 404
    /\ errResp.Code # errResp.Message
    /\ Len(errResp.RequestId) = MaxLen
    /\ errResp.Recommend # <<>>
    /\ errResp.HostId # <<>>

====
